---- MODULE Spec2Model ----
(***************************************************************************)
(* Model of the creditscope pre-computation pipeline (src/data_pipeline.py)*)
(*                                                                         *)
(* Numeric conventions.  Floating point values are modelled by exact       *)
(* integers in a fixed unit:                                               *)
(*   auc, auc_rolling3, default_rate, pred_default_prob : units of 1e-4    *)
(*   psi, missing_rate                                  : units of 1e-6    *)
(* round(x, d) is modelled by round-half-even of the exact quotient; the   *)
(* logarithm of compute_psi is a fixed-point approximation, so a psi value *)
(* is within a few 1e-6 of the floating-point result.                      *)
(* Timestamps are month numbers ym = year*12 + (month-1); a period-start   *)
(* timestamp is the month number of the first month of the period.         *)
(***************************************************************************)
EXTENDS Integers, Sequences, FiniteSets, TLC

(***************************************************************************)
(* Bounds of the model                                                     *)
(***************************************************************************)
\* number of consecutive calendar months the input data set spans
MaxMonths == 3
\* number of consecutive calendar months of a drawn AUC table
MaxRollMonths == 4
\* feature values of a drawn population are 1..MaxVal
MaxVal == 3

(***************************************************************************)
(* Program constants                                                       *)
(***************************************************************************)
TRAIN_YEARS == {2012, 2013, 2014}
MODEL_FEATURES == <<"loan_amnt", "int_rate", "annual_inc", "dti", "term_months">>
DRIFT_FEATURES == <<"dti", "int_rate", "annual_inc", "loan_amnt">>
DQ_FEATURES == <<"dti", "annual_inc", "int_rate", "loan_amnt">>
PSI_N_BINS == 10
BAD_STATUSES == {"Charged Off", "Late (31-120 days)", "Late (16-30 days)", "Default"}
\* len(group) < 30 in compute_auc_by_cohort
MIN_COHORT == 30
\* len(group) < 20 in compute_auc_by_cohort_grade
MIN_SEGMENT == 20
\* len(actual) < 10 in compute_psi_by_cohort
MIN_PSI_OBS == 10
\* rolling(3, min_periods=1)
ROLL_WINDOW == 3
\* min(len(group), 5000) and random_state=42 in compute_feature_distributions
SAMPLE_CAP == 5000
RANDOM_STATE == 42
\* dti > 100 is set to NaN by load_and_clean
DTI_CAP == 100
\* eps = 1e-4 in compute_psi, as the denominator of the fraction 1/EPS_INV
EPS_INV == 10000

\* np.nan in a numeric column, NaT in a timestamp column
NaN == -1
NaT == -1
\* an issue_d field of the csv that is not a date
INVALID == -2

(***************************************************************************)
(* Generic helpers                                                         *)
(***************************************************************************)
Range(s) == {s[i] : i \in DOMAIN s}

Min2(a, b) == IF a <= b THEN a ELSE b

Max2(a, b) == IF a >= b THEN a ELSE b

Abs(x) == IF x < 0 THEN -x ELSE x

RECURSIVE SumSeq(_)
SumSeq(s) == IF s = <<>> THEN 0 ELSE Head(s) + SumSeq(Tail(s))

RECURSIVE Flatten(_)
Flatten(ss) == IF ss = <<>> THEN <<>> ELSE Head(ss) \o Flatten(Tail(ss))

\* least element of a non-empty finite set of integers
SetMin(S) == CHOOSE x \in S : \A y \in S : x <= y

\* ascending sequence of the elements of a finite set of integers
RECURSIVE SortedSeq(_)
SortedSeq(S) == IF S = {} THEN <<>>
                ELSE <<SetMin(S)>> \o SortedSeq(S \ {SetMin(S)})

\* the sequence s sorted ascending, duplicates kept (np.sort)
Sorted(s) == SortSeq(s, LAMBDA a, b : a < b)

\* n copies of x
Rep(n, x) == [i \in 1..n |-> x]

\* number of entries of s that satisfy Test
Count(s, Test(_)) == Cardinality({i \in DOMAIN s : Test(s[i])})

\* round-half-even of num/den, for num >= 0 and den > 0: Python's round()
RoundDiv(num, den) ==
    LET q == num \div den
        r == num % den
    IN  IF 2 * r < den THEN q
        ELSE IF 2 * r > den THEN q + 1
        ELSE IF q % 2 = 0 THEN q ELSE q + 1

(***************************************************************************)
(* Input data: the rows of the raw csv.  A data set is one cohort shape    *)
(* per calendar month; a shape is a list of runs of identical rows         *)
(* <<n, grade, loan_status, int_rate, dti>>.                               *)
(***************************************************************************)
\* December 2014: the data spans the last training month and the first
\* monitoring months, across a year boundary and a quarter boundary
FirstMonth == 2014 * 12 + 11

Grades == <<"A", "B">>

YearOf(ym) == ym \div 12

CohortShapes ==
    [ absent  |-> <<>>,
      one     |-> << <<1, "A", "Fully Paid", 1, NaN>> >>,
      c25     |-> << <<16, "A", "Fully Paid", 1, NaN>>,
                     <<4, "A", "Fully Paid", 2, 1>>,
                     <<3, "A", "Charged Off", 2, 2>>,
                     <<2, "A", "Late (31-120 days)", 3, 3>> >>,
      c29     |-> << <<15, "A", "Fully Paid", 1, 1>>,
                     <<4, "A", "Charged Off", 3, 3>>,
                     <<9, "B", "Fully Paid", 2, NaN>>,
                     <<1, "B", "Default", 3, 2>> >>,
      c30     |-> << <<10, "A", "Fully Paid", 1, NaN>>,
                     <<6, "A", "Fully Paid", 2, 1>>,
                     <<4, "A", "Charged Off", 3, 2>>,
                     <<4, "B", "Fully Paid", 1, NaN>>,
                     <<1, "B", "Current", 2, 101>>,
                     <<3, "B", "Fully Paid", 2, 3>>,
                     <<2, "B", "Charged Off", 3, 2>> >>,
      c30paid |-> << <<20, "A", "Fully Paid", 1, NaN>>,
                     <<10, "B", "Current", 2, 2>> >> ]

ShapeNames == DOMAIN CohortShapes

\* one raw csv row issued in month ym
RawRow(ym, run) ==
    [ issue_d |-> ym, year |-> YearOf(ym), grade |-> run[2],
      loan_status |-> run[3], int_rate |-> run[4], dti |-> run[5],
      annual_inc |-> 3, loan_amnt |-> (ym % 3) + 1, term_months |-> 36 ]

ShapeRows(ym, shape) ==
    Flatten([k \in DOMAIN shape |-> Rep(shape[k][1], RawRow(ym, shape[k]))])

\* the csv whose month FirstMonth+k-1 has shape pick[k]
RawData(pick) ==
    Flatten([k \in 1..MaxMonths |->
                ShapeRows(FirstMonth + k - 1, CohortShapes[pick[k]])])

(***************************************************************************)
(* load_and_clean                                                          *)
(***************************************************************************)
\* dt.to_period("M").dt.to_timestamp(): first instant of the month
MonthStart(ts) == IF ts = NaT THEN NaT ELSE ts

\* dt.to_period("Q").dt.to_timestamp(): first instant of the quarter
QuarterStart(ts) == IF ts = NaT THEN NaT ELSE ts - (ts % 3)

CleanRow(r) ==
    [r EXCEPT !.dti = IF r.dti # NaN /\ r.dti > DTI_CAP THEN NaN ELSE r.dti]
    @@ [ default_flag |-> IF r.loan_status \in BAD_STATUSES THEN 1 ELSE 0,
         cohort |-> MonthStart(r.issue_d),
         cohort_q |-> QuarterStart(r.issue_d) ]

load_and_clean(raw) == [i \in DOMAIN raw |-> CleanRow(raw[i])]

\* read_csv leaves a parse_dates column that holds an unparseable value as a
\* column of strings, and .dt of such a column raises AttributeError
ParseFails(raw) == \E i \in DOMAIN raw : raw[i].issue_d = INVALID

(***************************************************************************)
(* train_model, score_all.  The fitted classifier is opaque: it is one of  *)
(* a few scoring functions of the imputed int_rate (doubled, so that the   *)
(* median of an even number of values stays an integer).                   *)
(***************************************************************************)
Classifiers == {"rising", "flat", "falling"}

IsComplete(r) == \A k \in DOMAIN MODEL_FEATURES : r[MODEL_FEATURES[k]] # NaN

\* df[df["year"].isin(TRAIN_YEARS)]
TrainSlice(df) == SelectSeq(df, LAMBDA r : r.year \in TRAIN_YEARS)

TrainRows(df) == SelectSeq(TrainSlice(df), IsComplete)

\* the fit raises ValueError on an empty or single-class training set
TrainFits(df) == {TrainRows(df)[i].default_flag : i \in DOMAIN TrainRows(df)} = {0, 1}

\* twice the median of a non-empty sequence (SimpleImputer strategy="median")
Median2(vals) ==
    LET s == Sorted(vals)
        n == Len(s)
    IN  IF n % 2 = 1 THEN 2 * s[(n + 1) \div 2] ELSE s[n \div 2] + s[n \div 2 + 1]

Imputer(df) == Median2([i \in DOMAIN TrainRows(df) |-> TrainRows(df)[i].int_rate])

\* predict_proba(...)[:, 1] in units of 1e-4, x2 = twice the imputed int_rate
PredictProba(clf, x2) ==
    LET level == IF x2 <= 2 THEN 1 ELSE IF x2 <= 4 THEN 2 ELSE 3
    IN  CASE clf = "rising"  -> 2500 * level
          [] clf = "falling" -> 10000 - 2500 * level
          [] OTHER           -> 5000

score_all(df, clf, imp) ==
    [i \in DOMAIN df |->
        df[i] @@ [pred_default_prob |->
            PredictProba(clf, IF df[i].int_rate = NaN THEN imp
                              ELSE 2 * df[i].int_rate)]]

(***************************************************************************)
(* groupby: the groups of a table by one column, in ascending key order;   *)
(* rows whose key is missing (NaT) belong to no group.                     *)
(***************************************************************************)
GroupKeys(df, col) == SortedSeq({df[i][col] : i \in DOMAIN df} \ {NaT})

Group(df, col, key) == SelectSeq(df, LAMBDA r : r[col] = key)

\* group["default_flag"].nunique()
NUnique(group) == Cardinality({group[i].default_flag : i \in DOMAIN group})

NumPos(group) == Count(group, LAMBDA r : r.default_flag = 1)

(***************************************************************************)
(* roc_auc_score: the area under the ROC curve by the trapezoidal rule, as *)
(* the exact fraction <<num, den>>.  The curve has one point per distinct  *)
(* score, taken as thresholds from the highest down: the numbers of        *)
(* negatives and of positives scored at or above the threshold.            *)
(***************************************************************************)
\* the distinct scores of a group, highest first
Thresholds(group) ==
    LET asc == SortedSeq({group[i].pred_default_prob : i \in DOMAIN group})
    IN  [k \in DOMAIN asc |-> asc[Len(asc) + 1 - k]]

\* roc_curve: <<fps, tps>> at every threshold, after the origin
RocCurve(group) ==
    LET th == Thresholds(group)
    IN  <<(<<0, 0>>)>> \o
        [k \in DOMAIN th |->
            << Count(group, LAMBDA r : r.default_flag = 0
                                        /\ r.pred_default_prob >= th[k]),
               Count(group, LAMBDA r : r.default_flag = 1
                                        /\ r.pred_default_prob >= th[k]) >>]

\* a step curve: the segment's area taken at its left height, so that a
\* positive and a negative of equal score count as a wrongly ordered pair
Trapezoid_Step(curve) ==
    SumSeq([k \in 1..(Len(curve) - 1) |->
               (curve[k + 1][1] - curve[k][1]) * (2 * curve[k][2])])

\* auc(fpr, tpr): twice the area under the curve, in counts
Trapezoid(curve) ==
    SumSeq([k \in 1..(Len(curve) - 1) |->
               (curve[k + 1][1] - curve[k][1]) * (curve[k + 1][2] + curve[k][2])])

roc_auc_score(group) ==
    <<Trapezoid(RocCurve(group)),
      2 * Count(group, LAMBDA r : r.default_flag = 1)
        * Count(group, LAMBDA r : r.default_flag = 0)>>

\* round(x, 4) of the fraction fr, in units of 1e-4
Round4(fr) == RoundDiv(fr[1] * 10000, fr[2])

\* round(group["default_flag"].mean(), 4)
DefaultRate(group) == RoundDiv(NumPos(group) * 10000, Len(group))

(***************************************************************************)
(* compute_auc_by_cohort                                                   *)
(***************************************************************************)
Granularities == << <<"month", "cohort">>, <<"quarter", "cohort_q">> >>

\* the guard of the loop body: True when the group is skipped
AucSkip(group) == NUnique(group) < 2 \/ Len(group) < MIN_COHORT

AucRow(name, gran, group) ==
    [ period |-> name, granularity |-> gran, auc |-> Round4(roc_auc_score(group)),
      n_loans |-> Len(group), default_rate |-> DefaultRate(group) ]

\* the list "results" built by the two nested loops
AucResults(df) ==
    Flatten([g \in DOMAIN Granularities |->
        LET gran == Granularities[g][1]
            col  == Granularities[g][2]
            keys == GroupKeys(df, col)
        IN  Flatten([k \in DOMAIN keys |->
                LET group == Group(df, col, keys[k])
                IN  IF AucSkip(group) THEN <<>>
                    ELSE <<AucRow(keys[k], gran, group)>>])])

\* auc_df[auc_df["granularity"] == "month"].sort_values("period")
MonthlyRows(auc_df) ==
    SortSeq(SelectSeq(auc_df, LAMBDA r : r.granularity = "month"),
            LAMBDA a, b : a.period < b.period)

\* the window centred on row i instead of trailing it (center=True)
RollingMean_Centred(monthly, i) ==
    LET lo == Max2(1, i - 1)
        hi == Min2(Len(monthly), i + 1)
    IN  RoundDiv(SumSeq([k \in 1..(hi - lo + 1) |-> monthly[lo + k - 1].auc]),
                 hi - lo + 1)

\* monthly["auc"].rolling(3, min_periods=1).mean().round(4), i-th value
RollingMean(monthly, i) ==
    LET lo == Max2(1, i - ROLL_WINDOW + 1)
    IN  RoundDiv(SumSeq([k \in 1..(i - lo + 1) |-> monthly[lo + k - 1].auc]),
                 i - lo + 1)

Rolling(auc_df) ==
    LET monthly == MonthlyRows(auc_df)
    IN  [i \in DOMAIN monthly |->
            [period |-> monthly[i].period, auc_rolling3 |-> RollingMean(monthly, i)]]

\* how="inner": a left row without a right row of its period is dropped
MergeLeft_Inner(left, right) ==
    Flatten([i \in DOMAIN left |->
        LET hits == SelectSeq(right, LAMBDA m : m.period = left[i].period)
        IN  [j \in DOMAIN hits |->
                left[i] @@ [auc_rolling3 |-> hits[j].auc_rolling3]]])

\* left.merge(right, on="period", how="left"): every left row once per right
\* row with the same period, or once with a missing value when there is none
MergeLeft(left, right) ==
    Flatten([i \in DOMAIN left |->
        LET hits == SelectSeq(right, LAMBDA m : m.period = left[i].period)
        IN  IF hits = <<>> THEN <<left[i] @@ [auc_rolling3 |-> NaN]>>
            ELSE [j \in DOMAIN hits |->
                    left[i] @@ [auc_rolling3 |-> hits[j].auc_rolling3]]])

\* auc_df["auc_rolling3"].fillna(auc_df["auc"])
FillRolling(auc_df) ==
    [i \in DOMAIN auc_df |->
        IF auc_df[i].auc_rolling3 = NaN
        THEN [auc_df[i] EXCEPT !.auc_rolling3 = auc_df[i].auc]
        ELSE auc_df[i]]

\* lines 124-129: the rolling average of the monthly rows, merged back
AddRolling(auc_df) == FillRolling(MergeLeft(auc_df, Rolling(auc_df)))

\* pd.DataFrame([]) has no column "granularity": line 125 raises KeyError
AucRaises(df) == AucResults(df) = <<>>

compute_auc_by_cohort(df) == AddRolling(AucResults(df))

(***************************************************************************)
(* compute_auc_by_cohort_grade                                             *)
(***************************************************************************)
SegmentSkip(group) == NUnique(group) < 2 \/ Len(group) < MIN_SEGMENT

SegmentGroup(df, cohort, grade) ==
    SelectSeq(df, LAMBDA r : r.cohort = cohort /\ r.grade = grade)

compute_auc_by_cohort_grade(df) ==
    LET keys == GroupKeys(df, "cohort")
    IN  Flatten([k \in DOMAIN keys |->
            Flatten([g \in DOMAIN Grades |->
                LET group == SegmentGroup(df, keys[k], Grades[g])
                IN  IF group = <<>> \/ SegmentSkip(group) THEN <<>>
                    ELSE << [ period |-> keys[k], grade |-> Grades[g],
                              auc |-> Round4(roc_auc_score(group)),
                              n_loans |-> Len(group),
                              default_rate |-> DefaultRate(group) ] >>])])

(***************************************************************************)
(* np.log.  LnInt(n) is ln(n) in units of 1e-8 for an integer n >= 1, by   *)
(* shift-and-add normalisation: n = 2^k * m, m is multiplied by factors    *)
(* (1 + 2^-j) up to 2, and ln(1 + 2^-j) is read from a table.  The error   *)
(* is below 1e-7.                                                          *)
(***************************************************************************)
LN2 == 69314718

LN1P == << 40546511, 22314355, 11778304, 6062462, 3077166, 1550419, 778214,
           389864, 195122, 97609, 48816, 24411, 12206, 6103, 3052, 1526, 763,
           381, 191, 95, 48, 24, 12, 6, 3, 1, 1, 0, 0 >>

RECURSIVE Pow2(_)
Pow2(j) == IF j = 0 THEN 1 ELSE 2 * Pow2(j - 1)

RECURSIVE Log2Floor(_)
Log2Floor(n) == IF n < 2 THEN 0 ELSE 1 + Log2Floor(n \div 2)

\* m, scaled so that 2^30 stands for 2, is multiplied by (1 + 2^-j) while it
\* stays at most 2; d = 2^j; acc sums the logarithms of the factors used
RECURSIVE LnNorm(_, _, _, _)
LnNorm(m, j, d, acc) ==
    IF j > Len(LN1P) THEN acc
    ELSE LET t == m + (m \div d)
         IN  IF t <= 1073741824 THEN LnNorm(t, j + 1, 2 * d, acc + LN1P[j])
             ELSE LnNorm(m, j + 1, 2 * d, acc)

LnInt(n) ==
    LET k == Log2Floor(n)
    IN  (k + 1) * LN2 - LnNorm(n * Pow2(29 - k), 1, 2, 0)

(***************************************************************************)
(* compute_psi.  Values are integers; bin edges are kept in tenths, which  *)
(* holds every linear-interpolated decile of integer data exactly.         *)
(***************************************************************************)
NEG_INF == -1000000000
POS_INF == 1000000000

\* x[~np.isnan(x)]
NotNan(x) == SelectSeq(x, LAMBDA v : v # NaN)

\* np.quantile(x, k / n_bins), times 10, method "linear", x sorted non-empty
Quantile10(x, k, n_bins) ==
    LET pos == (Len(x) - 1) * k
        lo  == pos \div n_bins
        r   == pos % n_bins
    IN  IF r = 0 THEN 10 * x[lo + 1]
        ELSE (10 * (n_bins * x[lo + 1] + r * (x[lo + 2] - x[lo + 1]))) \div n_bins

\* edges on a fixed grid of the value range instead of the deciles of expected
BinEdges_Grid(expected, n_bins) ==
    <<NEG_INF>> \o [k \in 1..(n_bins - 1) |-> 5 * k + 5] \o <<POS_INF>>

\* without np.unique: equal deciles stay as repeated edges
BinEdges_Repeated(expected, n_bins) ==
    LET x == Sorted(NotNan(expected))
    IN  [k \in 1..(n_bins + 1) |->
            IF k = 1 THEN NEG_INF ELSE IF k = n_bins + 1 THEN POS_INF
            ELSE Quantile10(x, k - 1, n_bins)]

\* lines 93-96: the deciles of expected, outer edges opened, duplicates dropped
BinEdges(expected, n_bins) ==
    LET x == Sorted(NotNan(expected))
        q == [k \in 0..n_bins |-> Quantile10(x, k, n_bins)]
        e == [k \in 0..n_bins |->
                IF k = 0 THEN NEG_INF ELSE IF k = n_bins THEN POS_INF ELSE q[k]]
    IN  SortedSeq({e[k] : k \in 0..n_bins})

\* every bin closed at both ends: a value on an inner edge is in two bins
Histogram_Closed(x, edges) ==
    [i \in 1..(Len(edges) - 1) |->
        Count(x, LAMBDA v : edges[i] <= 10 * v /\ 10 * v <= edges[i + 1])]

\* np.histogram(x, bins=edges)[0]: bin i is [edges[i], edges[i+1]), the last
\* bin also holds its right edge
Histogram(x, edges) ==
    [i \in 1..(Len(edges) - 1) |->
        Count(x, LAMBDA v :
            /\ edges[i] <= 10 * v
            /\ \/ 10 * v < edges[i + 1]
               \/ (i = Len(edges) - 1 /\ 10 * v = edges[i + 1]))]

\* ln(a_pct / e_pct) in units of 1e-6, where a_pct = ca/sa + eps and
\* e_pct = ce/se + eps; np.log is monotone with log(1) = 0
LnRatio(ca, sa, ce, se) ==
    LET xa == ca * EPS_INV + sa
        xe == ce * EPS_INV + se
        d  == ca * se - ce * sa
    IN  IF d = 0 THEN 0
        ELSE LET v == ((LnInt(xa) - LnInt(xe)) + (LnInt(se) - LnInt(sa)) + 50) \div 100
             IN  IF d > 0 THEN Max2(0, v) ELSE Min2(0, v)

\* (a_pct - e_pct) * lnv, a_pct - e_pct = (ca*se - ce*sa) / (sa*se)
PsiProduct(ca, sa, ce, se, lnv) ==
    LET d   == ca * se - ce * sa
        den == sa * se
        q   == lnv \div den
        r   == lnv % den
    IN  d * q + ((2 * d * r + den) \div (2 * den))

\* the logarithm of the inverted ratio, np.log(e_pct / a_pct)
PsiTerm_Inverted(ca, sa, ce, se) ==
    PsiProduct(ca, sa, ce, se, LnRatio(ce, se, ca, sa))

\* one bin's summand (a_pct - e_pct) * np.log(a_pct / e_pct), units of 1e-6
PsiTerm(ca, sa, ce, se) == PsiProduct(ca, sa, ce, se, LnRatio(ca, sa, ce, se))

\* compute_psi(expected, actual), units of 1e-6; NaN when a population has
\* no value (0/0); expected must have a value (np.quantile needs one)
compute_psi(expected, actual) ==
    LET edges    == BinEdges(expected, PSI_N_BINS)
        e_counts == Histogram(NotNan(expected), edges)
        a_counts == Histogram(NotNan(actual), edges)
        se       == SumSeq(e_counts)
        sa       == SumSeq(a_counts)
    IN  IF se = 0 \/ sa = 0 THEN NaN
        ELSE SumSeq([i \in DOMAIN e_counts |->
                        PsiTerm(a_counts[i], sa, e_counts[i], se)])

(***************************************************************************)
(* compute_psi_by_cohort                                                   *)
(***************************************************************************)
\* df[col].dropna().values
DropNa(df, col) == NotNan([i \in DOMAIN df |-> df[i][col]])

Baseline(df, feature) == DropNa(TrainSlice(df), feature)

\* the guard with <= in place of <
PsiSkip_Inclusive(actual) == Len(actual) <= MIN_PSI_OBS

\* if len(actual) < 10: continue
PsiSkip(actual) == Len(actual) < MIN_PSI_OBS

compute_psi_by_cohort(df) ==
    LET keys == GroupKeys(df, "cohort")
    IN  Flatten([f \in DOMAIN DRIFT_FEATURES |->
            Flatten([k \in DOMAIN keys |->
                LET actual == DropNa(Group(df, "cohort", keys[k]), DRIFT_FEATURES[f])
                IN  IF PsiSkip(actual) THEN <<>>
                    ELSE << [ period |-> keys[k], feature |-> DRIFT_FEATURES[f],
                              psi |-> compute_psi(Baseline(df, DRIFT_FEATURES[f]), actual),
                              n_obs |-> Len(actual) ] >>])])

\* np.quantile of an empty baseline raises: reached when a feature has no
\* training value and some cohort passes the guard
PsiRaises(df) ==
    \E f \in DOMAIN DRIFT_FEATURES :
        /\ Baseline(df, DRIFT_FEATURES[f]) = <<>>
        /\ \E key \in Range(GroupKeys(df, "cohort")) :
              ~PsiSkip(DropNa(Group(df, "cohort", key), DRIFT_FEATURES[f]))

(***************************************************************************)
(* compute_missing_rates                                                   *)
(***************************************************************************)
\* notna() in place of isna(): the rate of present values
MissingRate_Present(group, col) ==
    RoundDiv(Count(group, LAMBDA r : r[col] # NaN) * 1000000, Len(group))

\* round(group[col].isna().mean(), 6), units of 1e-6
MissingRate(group, col) ==
    RoundDiv(Count(group, LAMBDA r : r[col] = NaN) * 1000000, Len(group))

compute_missing_rates(df) ==
    LET keys == GroupKeys(df, "cohort")
    IN  Flatten([k \in DOMAIN keys |->
            LET group == Group(df, "cohort", keys[k])
            IN  [c \in DOMAIN DQ_FEATURES |->
                    [ period |-> keys[k], feature |-> DQ_FEATURES[c],
                      missing_rate |-> MissingRate(group, DQ_FEATURES[c]),
                      n_records |-> Len(group) ]]])

(***************************************************************************)
(* compute_feature_distributions.  A sampled row keeps, as the field row,  *)
(* the position in df of the record it was drawn from.                     *)
(***************************************************************************)
TRAINING == "training (2012-14)"
MONITORING == "monitoring (2015-18)"

\* groupby("period_label") visits the labels in ascending order
PeriodLabels == <<MONITORING, TRAINING>>

\* the last training year left out of the test
PeriodLabel_Early(r) == IF r.year \in TRAIN_YEARS \ {2014} THEN TRAINING ELSE MONITORING

\* np.where(df_out["year"].isin(TRAIN_YEARS), ...)
PeriodLabel(r) == IF r.year \in TRAIN_YEARS THEN TRAINING ELSE MONITORING

\* df[DRIFT_FEATURES + ["year"]].copy() with the period_label column
DistRows(df) ==
    [i \in DOMAIN df |->
        [ row |-> i, year |-> df[i].year, dti |-> df[i].dti,
          int_rate |-> df[i].int_rate, annual_inc |-> df[i].annual_inc,
          loan_amnt |-> df[i].loan_amnt, period_label |-> PeriodLabel(df[i]) ]]

RECURSIVE Gcd(_, _)
Gcd(a, b) == IF b = 0 THEN a ELSE Gcd(b, a % b)

\* RandomState(seed).permutation(n): a bijection of 0..n-1 fixed by the seed
\* and n.  The library generator is replaced by the walk seed, seed + s,
\* seed + 2s, ... (mod n) whose stride s is the first number above the seed
\* that is coprime to n.
Stride(n, seed) == CHOOSE st \in (seed + 1)..(seed + n) : Gcd(st, n) = 1

Permutation(n, seed) ==
    LET st == Stride(n, seed)
    IN  [k \in 1..n |-> ((seed + (k - 1) * st) % n) + 1]

\* the state of the process-wide generator np.random, seeded from the
\* operating system when the process starts
VARIABLE rng

RngStates == {0, 1}

\* random_state=None: the draw reads the process-wide generator
RandomState_Global(random_state) == rng

\* random_state=42: a fresh RandomState(42), the same stream in every call;
\* the process-wide generator is not read
RandomState(random_state) == random_state

\* replace=True: every draw is independent, a row can be drawn again
Sample_Replace(group, m, seed) ==
    [k \in 1..m |-> group[((seed * k * k) % Len(group)) + 1]]

\* group.sample(n=m, random_state=seed): the first m rows of the permutation
Sample(group, m, seed) ==
    LET perm == Permutation(Len(group), RandomState(seed))
    IN  [k \in 1..m |-> group[perm[k]]]

compute_feature_distributions(df) ==
    LET df_out == DistRows(df)
    IN  Flatten([l \in DOMAIN PeriodLabels |->
            LET group == SelectSeq(df_out, LAMBDA r : r.period_label = PeriodLabels[l])
            IN  IF group = <<>> THEN <<>>
                ELSE Sample(group, Min2(Len(group), SAMPLE_CAP), RANDOM_STATE)])

(***************************************************************************)
(* The pipeline run of main(): every function call is one step.  The two   *)
(* summary tables (volume by cohort, default rate by grade) read df_scored *)
(* only and are left out.                                                  *)
(*   pc           position in main(), or "error" once a call has raised    *)
(*   raw          rows of the csv at RAW_PATH                              *)
(*   df           the cleaned table; df_scored, the table with scores      *)
(*   clf          the fitted classifier                                    *)
(*   auc_df, auc_grade_df, psi_df, missing_df, dist_df   the five tables   *)
(*   err          the exception that ended the run                         *)
(*   expected, actual, psi_val, psi_rev   one call of compute_psi and the  *)
(*                call with its arguments swapped                          *)
(*   dist_rerun   the distribution sample of a second run on the same csv  *)
(*   cohorts      the cohort arrays the loop of compute_psi_by_cohort has  *)
(*                still to visit for one feature                           *)
(*   edges, e_counts, a_counts   the locals of the latest compute_psi call *)
(*   finished     the metric computations that have returned, when they    *)
(*                are run as independent tasks                             *)
(*   date_range, threshold_key   the values of the dashboard's range       *)
(*                slider and threshold toggle (app.py)                     *)
(*   kpi          the inputs and outputs of the latest update_kpis call;   *)
(*                kpi_prev, those of the call before it                    *)
(***************************************************************************)
VARIABLES pc, raw, df, clf, df_scored, auc_df, auc_grade_df, psi_df, missing_df,
          dist_df, err, expected, actual, psi_val, psi_rev, dist_rerun,
          cohorts, edges, e_counts, a_counts, finished,
          date_range, threshold_key, kpi, kpi_prev

binvars == <<cohorts, edges, e_counts, a_counts>>

dashvars == <<date_range, threshold_key, kpi, kpi_prev>>

\* state outside one sequential run of main()
extras == <<rng, dist_rerun, binvars, finished, dashvars>>

vars == <<pc, raw, df, clf, df_scored, auc_df, auc_grade_df, psi_df, missing_df,
          dist_df, err, expected, actual, psi_val, psi_rev, extras>>

tables == <<auc_df, auc_grade_df, psi_df, missing_df, dist_df>>

psivars == <<expected, actual, psi_val, psi_rev>>

NoTables ==
    /\ auc_df = <<>>
    /\ auc_grade_df = <<>>
    /\ psi_df = <<>>
    /\ missing_df = <<>>
    /\ dist_df = <<>>

NoPsiCall ==
    /\ expected = <<>>
    /\ actual = <<>>
    /\ psi_val = NaN
    /\ psi_rev = NaN

NoBins ==
    /\ cohorts = <<>>
    /\ edges = <<>>
    /\ e_counts = <<>>
    /\ a_counts = <<>>

NoDash ==
    /\ date_range = <<>>
    /\ threshold_key = "none"
    /\ kpi = <<>>
    /\ kpi_prev = <<>>

NoExtras ==
    /\ rng = 0
    /\ dist_rerun = <<>>
    /\ NoBins
    /\ finished = {}
    /\ NoDash

Init ==
    /\ pc = "load"
    /\ \E pick \in [1..MaxMonths -> ShapeNames] : raw = RawData(pick)
    /\ df = <<>>
    /\ clf = "none"
    /\ df_scored = <<>>
    /\ err = "none"
    /\ NoTables
    /\ NoPsiCall
    /\ NoExtras

\* df = load_and_clean(RAW_PATH)
Load ==
    /\ pc = "load"
    /\ IF ParseFails(raw)
       THEN /\ pc' = "error"
            /\ err' = "AttributeError"
            /\ df' = df
       ELSE /\ pc' = "train"
            /\ err' = err
            /\ df' = load_and_clean(raw)
    /\ UNCHANGED <<raw, clf, df_scored, tables, psivars, extras>>

\* model, imputer, scaler = train_model(df): any classifier, or ValueError
Train ==
    /\ pc = "train"
    /\ IF TrainFits(df)
       THEN /\ clf' \in Classifiers
            /\ pc' = "score"
            /\ err' = err
       ELSE /\ clf' = clf
            /\ pc' = "error"
            /\ err' = "ValueError"
    /\ UNCHANGED <<raw, df, df_scored, tables, psivars, extras>>

\* df_scored = score_all(df.copy(), model, imputer, scaler)
Score ==
    /\ pc = "score"
    /\ df_scored' = score_all(df, clf, Imputer(df))
    /\ pc' = "auc"
    /\ UNCHANGED <<raw, df, clf, err, auc_df, auc_grade_df, psi_df, missing_df,
                   dist_df, psivars, extras>>

\* auc_df = compute_auc_by_cohort(df_scored)
AucByCohort ==
    /\ pc = "auc"
    /\ IF AucRaises(df_scored)
       THEN /\ pc' = "error"
            /\ err' = "KeyError"
            /\ auc_df' = auc_df
       ELSE /\ pc' = "auc_grade"
            /\ err' = err
            /\ auc_df' = compute_auc_by_cohort(df_scored)
    /\ UNCHANGED <<raw, df, clf, df_scored, auc_grade_df, psi_df, missing_df,
                   dist_df, psivars, extras>>

\* auc_grade_df = compute_auc_by_cohort_grade(df_scored)
AucByCohortGrade ==
    /\ pc = "auc_grade"
    /\ auc_grade_df' = compute_auc_by_cohort_grade(df_scored)
    /\ pc' = "psi"
    /\ UNCHANGED <<raw, df, clf, df_scored, err, auc_df, psi_df, missing_df,
                   dist_df, psivars, extras>>

\* psi_df = compute_psi_by_cohort(df_scored)
PsiByCohort ==
    /\ pc = "psi"
    /\ IF PsiRaises(df_scored)
       THEN /\ pc' = "error"
            /\ err' = "IndexError"
            /\ psi_df' = psi_df
       ELSE /\ pc' = "missing"
            /\ err' = err
            /\ psi_df' = compute_psi_by_cohort(df_scored)
    /\ UNCHANGED <<raw, df, clf, df_scored, auc_df, auc_grade_df, missing_df,
                   dist_df, psivars, extras>>

\* missing_df = compute_missing_rates(df)
MissingRates ==
    /\ pc = "missing"
    /\ missing_df' = compute_missing_rates(df)
    /\ pc' = "dist"
    /\ UNCHANGED <<raw, df, clf, df_scored, err, auc_df, auc_grade_df, psi_df,
                   dist_df, psivars, extras>>

\* dist_df = compute_feature_distributions(df)
FeatureDistributions ==
    /\ pc = "dist"
    /\ dist_df' = compute_feature_distributions(df)
    /\ pc' = "done"
    /\ UNCHANGED <<raw, df, clf, df_scored, err, auc_df, auc_grade_df, psi_df,
                   missing_df, psivars, extras>>

Next ==
    \/ Load
    \/ Train
    \/ Score
    \/ AucByCohort
    \/ AucByCohortGrade
    \/ PsiByCohort
    \/ MissingRates
    \/ FeatureDistributions

Spec == Init /\ [][Next]_vars

(***************************************************************************)
(* Properties of the pipeline run                                          *)
(***************************************************************************)
AucDone == pc \in {"auc_grade", "psi", "missing", "dist", "done"}

SegmentDone == pc \in {"psi", "missing", "dist", "done"}

PsiDone == pc \in {"missing", "dist", "done"}

MissingDone == pc \in {"dist", "done"}

\* the scored table of a run with the fitted classifier over the csv rows
ScoredRun(rows) ==
    score_all(load_and_clean(rows), clf, Imputer(load_and_clean(rows)))

\* the cohorts of one granularity: <<period, granularity, rows>>
Cohorts(d, g) ==
    {<<key, Granularities[g][1], Group(d, Granularities[g][2], key)>> :
        key \in Range(GroupKeys(d, Granularities[g][2]))}

AllCohorts(d) == UNION {Cohorts(d, g) : g \in DOMAIN Granularities}

BothClasses(group) == \E i, j \in DOMAIN group :
                         group[i].default_flag = 0 /\ group[j].default_flag = 1

RowsOf(table, period, gran) ==
    {i \in DOMAIN table : table[i].period = period /\ table[i].granularity = gran}

SegmentRowsOf(table, period, grade) ==
    {i \in DOMAIN table : table[i].period = period /\ table[i].grade = grade}

MonthKeys(d) == Range(GroupKeys(d, "cohort"))

\* C1 (as claimed): a monthly or quarterly cohort has a row of the AUC table
\* exactly when it holds both outcome classes and at least 30 records, a
\* cohort x grade group has a row of the segment table exactly when it holds
\* both classes and at least 20 records, and skipping a group raises no error.
C1_SkipIsSilent ==
    /\ AucDone =>
          \A c \in AllCohorts(df_scored) :
              (RowsOf(auc_df, c[1], c[2]) # {})
                  <=> (BothClasses(c[3]) /\ Len(c[3]) >= MIN_COHORT)
    /\ SegmentDone =>
          \A key \in MonthKeys(df_scored) : \A g \in DOMAIN Grades :
              LET group == SegmentGroup(df_scored, key, Grades[g])
              IN  (SegmentRowsOf(auc_grade_df, key, Grades[g]) # {})
                      <=> (BothClasses(group) /\ Len(group) >= MIN_SEGMENT)
    /\ err # "KeyError"

\* C1, the part the code meets: in every run in which compute_auc_by_cohort
\* returns, rows are emitted exactly for the groups that pass the guard.
C1_RowsIffGuard ==
    /\ AucDone =>
          \A c \in AllCohorts(df_scored) :
              (RowsOf(auc_df, c[1], c[2]) # {})
                  <=> (BothClasses(c[3]) /\ Len(c[3]) >= MIN_COHORT)
    /\ SegmentDone =>
          \A key \in MonthKeys(df_scored) : \A g \in DOMAIN Grades :
              LET group == SegmentGroup(df_scored, key, Grades[g])
              IN  (SegmentRowsOf(auc_grade_df, key, Grades[g]) # {})
                      <=> (BothClasses(group) /\ Len(group) >= MIN_SEGMENT)

\* a 25-record cohort with both classes, all of one grade: no whole-cohort
\* row, one segment row
C1_Seen ==
    /\ SegmentDone
    /\ \E key \in MonthKeys(df_scored) :
          /\ Len(Group(df_scored, "cohort", key)) = 25
          /\ RowsOf(auc_df, key, "month") = {}
          /\ SegmentRowsOf(auc_grade_df, key, "A") # {}

C4_OneRowPerCohort ==
    AucDone =>
        /\ \A c \in AllCohorts(df_scored) :
              Cardinality(RowsOf(auc_df, c[1], c[2]))
                  = IF BothClasses(c[3]) /\ Len(c[3]) >= MIN_COHORT THEN 1 ELSE 0
        /\ \A i \in DOMAIN auc_df :
              \E c \in AllCohorts(df_scored) :
                  /\ c[1] = auc_df[i].period
                  /\ c[2] = auc_df[i].granularity
                  /\ auc_df[i].n_loans = Len(c[3])

\* a table with a quarterly row that shares its period with a monthly row,
\* and a cohort that was skipped
C4_Seen ==
    /\ AucDone
    /\ \E i, j \in DOMAIN auc_df :
          /\ auc_df[i].granularity = "month"
          /\ auc_df[j].granularity = "quarter"
          /\ auc_df[i].period = auc_df[j].period
    /\ \E c \in AllCohorts(df_scored) : RowsOf(auc_df, c[1], c[2]) = {}

NonNull(group, col) == Count(group, LAMBDA r : r[col] # NaN)

PsiRowsOf(table, period, feature) ==
    {i \in DOMAIN table : table[i].period = period /\ table[i].feature = feature}

\* C5: a (monthly cohort, drift feature) pair has a PSI row exactly when the
\* cohort has at least 10 non-null values of the feature, the row's n_obs is
\* that number of values, and no pair makes the computation fail.
C5_PsiGuard ==
    /\ PsiDone =>
          \A key \in MonthKeys(df_scored) : \A f \in DOMAIN DRIFT_FEATURES :
              LET n    == NonNull(Group(df_scored, "cohort", key), DRIFT_FEATURES[f])
                  rows == PsiRowsOf(psi_df, key, DRIFT_FEATURES[f])
              IN  /\ Cardinality(rows) = IF n >= MIN_PSI_OBS THEN 1 ELSE 0
                  /\ \A i \in rows : psi_df[i].n_obs = n
    /\ err # "IndexError"

\* a cohort with 9 values of a feature (skipped) beside one with exactly 10
C5_Seen ==
    /\ PsiDone
    /\ \E k1, k2 \in MonthKeys(df_scored) :
          /\ NonNull(Group(df_scored, "cohort", k1), "dti") = MIN_PSI_OBS - 1
          /\ PsiRowsOf(psi_df, k1, "dti") = {}
          /\ NonNull(Group(df_scored, "cohort", k2), "dti") = MIN_PSI_OBS
          /\ PsiRowsOf(psi_df, k2, "dti") # {}

\* C8 (as claimed): one row per (monthly cohort, data-quality feature), whose
\* missing_rate is exactly nulls / records and whose n_records is the
\* cohort's record count.
C8_ExactRate ==
    MissingDone =>
        \A key \in MonthKeys(df) : \A c \in DOMAIN DQ_FEATURES :
            LET group == Group(df, "cohort", key)
                rows  == PsiRowsOf(missing_df, key, DQ_FEATURES[c])
            IN  /\ Cardinality(rows) = 1
                /\ \A i \in rows :
                      /\ missing_df[i].n_records = Len(group)
                      /\ missing_df[i].missing_rate * Len(group)
                            = 1000000 * (Len(group) - NonNull(group, DQ_FEATURES[c]))

\* C8 (amended): one row per (monthly cohort, data-quality feature), with no
\* size guard; missing_rate is nulls / records rounded to 6 decimal digits
\* (within half of 1e-6 of the quotient) and n_records is the record count.
C8_RoundedRate ==
    MissingDone =>
        \A key \in MonthKeys(df) : \A c \in DOMAIN DQ_FEATURES :
            LET group == Group(df, "cohort", key)
                rows  == PsiRowsOf(missing_df, key, DQ_FEATURES[c])
            IN  /\ Cardinality(rows) = 1
                /\ \A i \in rows :
                      /\ missing_df[i].n_records = Len(group)
                      /\ 2 * Abs(missing_df[i].missing_rate * Len(group)
                                  - 1000000 * (Len(group) - NonNull(group, DQ_FEATURES[c])))
                            <= Len(group)

\* a one-record cohort whose only dti is null (rate 1.0) beside a cohort
\* with dti null in exactly half of its records (rate 0.5)
C8_Seen ==
    /\ MissingDone
    /\ \E i, j \in DOMAIN missing_df :
          /\ missing_df[i].n_records = 1
          /\ missing_df[i].missing_rate = 1000000
          /\ missing_df[j].n_records = 30
          /\ missing_df[j].feature = "dti"
          /\ missing_df[j].missing_rate = 500000

\* records whose timestamp lies in a training year
IssuedInTraining(r) == r.issue_d # NaT /\ YearOf(r.issue_d) \in TRAIN_YEARS

PairAuc(group) ==
    LET Pos == {i \in DOMAIN group : group[i].default_flag = 1}
        Neg == {i \in DOMAIN group : group[i].default_flag = 0}
        Gt  == {pr \in Pos \X Neg :
                  group[pr[1]].pred_default_prob > group[pr[2]].pred_default_prob}
        Eq  == {pr \in Pos \X Neg :
                  group[pr[1]].pred_default_prob = group[pr[2]].pred_default_prob}
    IN  <<2 * Cardinality(Gt) + Cardinality(Eq),
          2 * Cardinality(Pos) * Cardinality(Neg)>>

\* every positive record is scored strictly higher than every negative one
Separable(group) ==
    \A i, j \in DOMAIN group :
        (group[i].default_flag = 1 /\ group[j].default_flag = 0)
            => group[i].pred_default_prob > group[j].pred_default_prob

HasTie(group) ==
    \E i, j \in DOMAIN group :
        /\ group[i].default_flag = 1
        /\ group[j].default_flag = 0
        /\ group[i].pred_default_prob = group[j].pred_default_prob

\* the reported AUC values with their groups: <<auc, group>>
Reported ==
    {<<auc_df[i].auc,
       Group(df_scored,
             IF auc_df[i].granularity = "month" THEN "cohort" ELSE "cohort_q",
             auc_df[i].period)>> : i \in DOMAIN auc_df}
    \cup
    {<<auc_grade_df[i].auc,
       SegmentGroup(df_scored, auc_grade_df[i].period, auc_grade_df[i].grade)>> :
          i \in DOMAIN auc_grade_df}

\* C13 (as claimed): every reported AUC lies in [0, 1], equals the
\* rank-based value of its group, and is 1.0 when the group is separable.
C13_ExactRank ==
    \A rep \in Reported :
        /\ 0 <= rep[1] /\ rep[1] <= 10000
        /\ rep[1] * PairAuc(rep[2])[2] = 10000 * PairAuc(rep[2])[1]
        /\ Separable(rep[2]) => rep[1] = 10000

\* C13: every reported AUC lies in [0, 1], equals the rank-based value of
\* its group (pairs with the positive scored higher, plus one half per tied
\* pair, over all positive/negative pairs) rounded to 4 decimal digits, and
\* is exactly 1.0 when every positive is scored above every negative.
C13_RoundedRank ==
    \A rep \in Reported :
        /\ 0 <= rep[1] /\ rep[1] <= 10000
        /\ rep[1] = Round4(PairAuc(rep[2]))
        /\ Separable(rep[2]) => rep[1] = 10000

\* a separable group reported as 1.0 beside a group with tied pairs whose
\* rank-based value has more than 4 decimal digits
C13_Seen ==
    /\ SegmentDone
    /\ \E rep \in Reported : Separable(rep[2]) /\ rep[1] = 10000
    /\ \E rep \in Reported :
          /\ HasTie(rep[2])
          /\ ~Separable(rep[2])
          /\ (10000 * PairAuc(rep[2])[1]) % PairAuc(rep[2])[2] # 0

(***************************************************************************)
(* The rolling average on its own: lines 124-129 applied to any table the  *)
(* loops of compute_auc_by_cohort can build.  A month is absent or has one *)
(* of a few auc values; a quarter that holds a present month is present    *)
(* (the quarter's cohort contains the month's), any other quarter may be.  *)
(***************************************************************************)
RollMonths == FirstMonth .. (FirstMonth + MaxRollMonths - 1)

RollQuarters == {QuarterStart(m) : m \in RollMonths}

\* a cohort the guard skipped has no row
ABSENT == NaN

MonthAucs == {6400, 6600, 6800, 7000}

QuarterAucs == {5000, 6900}

ResultRow(period, gran, auc) ==
    [ period |-> period, granularity |-> gran, auc |-> auc,
      n_loans |-> MIN_COHORT, default_rate |-> 2000 ]

\* the list "results": monthly rows by period, then quarterly rows by period
ResultsTable(msel, qsel) ==
    LET ms == SortedSeq({m \in RollMonths : msel[m] # ABSENT})
        qs == SortedSeq({q \in RollQuarters : qsel[q] # ABSENT})
    IN  [i \in DOMAIN ms |-> ResultRow(ms[i], "month", msel[ms[i]])]
        \o [i \in DOMAIN qs |-> ResultRow(qs[i], "quarter", qsel[qs[i]])]

InitRoll ==
    /\ pc = "roll"
    /\ \E msel \in [RollMonths -> MonthAucs \cup {ABSENT}] :
       \E qsel \in [RollQuarters -> QuarterAucs \cup {ABSENT}] :
          /\ \A m \in RollMonths : msel[m] # ABSENT => qsel[QuarterStart(m)] # ABSENT
          /\ ~(\A q \in RollQuarters : qsel[q] = ABSENT)
          /\ auc_df = ResultsTable(msel, qsel)
    /\ raw = <<>>
    /\ df = <<>>
    /\ clf = "none"
    /\ df_scored = <<>>
    /\ err = "none"
    /\ auc_grade_df = <<>>
    /\ psi_df = <<>>
    /\ missing_df = <<>>
    /\ dist_df = <<>>
    /\ NoPsiCall
    /\ NoExtras

\* lines 124-129 of compute_auc_by_cohort
RollingAverage ==
    /\ pc = "roll"
    /\ auc_df' = AddRolling(auc_df)
    /\ pc' = "rolled"
    /\ UNCHANGED <<raw, df, clf, df_scored, err, auc_grade_df, psi_df, missing_df,
                   dist_df, psivars, extras>>

NextRoll == RollingAverage

SpecRoll == InitRoll /\ [][NextRoll]_vars

\* the monthly rows of a table, as indices
MonthIdx(table) == {i \in DOMAIN table : table[i].granularity = "month"}

\* the up to two present monthly rows immediately before row i
Preceding(table, i) ==
    {j \in MonthIdx(table) :
        /\ table[j].period < table[i].period
        /\ Cardinality({k \in MonthIdx(table) :
                table[j].period < table[k].period
                /\ table[k].period < table[i].period}) < ROLL_WINDOW - 1}

WindowSum(table, i) ==
    table[i].auc + SumSeq([k \in 1..Cardinality(Preceding(table, i)) |->
                             table[SortedSeq(Preceding(table, i))[k]].auc])

WindowSize(table, i) == 1 + Cardinality(Preceding(table, i))

\* C3 (as claimed): auc_rolling3 of a monthly row is exactly the uniform mean
\* of its auc and the auc of the up to two present monthly rows before it.
C3_ExactMean ==
    pc = "rolled" =>
        \A i \in MonthIdx(auc_df) :
            auc_df[i].auc_rolling3 * WindowSize(auc_df, i) = WindowSum(auc_df, i)

\* C3 (amended): auc_rolling3 of a monthly row is the uniform mean, rounded
\* to 4 decimal digits (within half of 1e-4), of its auc and the auc of the
\* up to two present monthly rows immediately before it: one value for the
\* first row, two for the second, three from the third on; no later row and
\* no skipped month enters the window.
C3_RoundedMean ==
    pc = "rolled" =>
        \A i \in MonthIdx(auc_df) :
            2 * Abs(auc_df[i].auc_rolling3 * WindowSize(auc_df, i) - WindowSum(auc_df, i))
                <= WindowSize(auc_df, i)

\* the series 0.70, 0.68, 0.66, 0.64 smoothed to 0.70, 0.69, 0.68, 0.66
C3_Seen ==
    /\ pc = "rolled"
    /\ \E s \in [1..4 -> MonthIdx(auc_df)] :
          /\ \A k \in 1..3 : auc_df[s[k]].period < auc_df[s[k + 1]].period
          /\ <<auc_df[s[1]].auc, auc_df[s[2]].auc, auc_df[s[3]].auc, auc_df[s[4]].auc>>
                = <<7000, 6800, 6600, 6400>>
          /\ <<auc_df[s[1]].auc_rolling3, auc_df[s[2]].auc_rolling3,
                auc_df[s[3]].auc_rolling3, auc_df[s[4]].auc_rolling3>>
                = <<7000, 6900, 6800, 6600>>
          /\ Cardinality(MonthIdx(auc_df)) = 4

(***************************************************************************)
(* compute_psi on its own.  The cohort side is any population of           *)
(* MIN_PSI_OBS values (the smallest the caller passes on); the baseline is *)
(* a small population, the cohort itself, or the cohort shifted down by 1. *)
(***************************************************************************)
Values == 1..MaxVal

BaselineSizes == {2, 3}

\* the populations of n values, as ascending arrays: cnt[v] copies of v
RECURSIVE Spread(_, _)
Spread(cnt, v) == IF v > MaxVal THEN <<>> ELSE Rep(cnt[v], v) \o Spread(cnt, v + 1)

Populations(n) ==
    {Spread(cnt, 1) : cnt \in {c \in [Values -> 0..n] :
                                 SumSeq([v \in Values |-> c[v]]) = n}}

Shifted(x, by) == [i \in DOMAIN x |-> x[i] + by]

InitPsi ==
    /\ pc = "psi_call"
    /\ actual \in Populations(MIN_PSI_OBS)
    /\ \/ \E n \in BaselineSizes : expected \in Populations(n)
       \/ expected = actual
       \/ /\ \A i \in DOMAIN actual : actual[i] > 1
          /\ expected = Shifted(actual, -1)
    /\ psi_val = NaN
    /\ psi_rev = NaN
    /\ raw = <<>>
    /\ df = <<>>
    /\ clf = "none"
    /\ df_scored = <<>>
    /\ err = "none"
    /\ NoTables
    /\ NoExtras

\* psi_val = compute_psi(baseline, actual)
PsiCall ==
    /\ pc = "psi_call"
    /\ psi_val' = compute_psi(expected, actual)
    /\ pc' = "psi_swap"
    /\ UNCHANGED <<raw, df, clf, df_scored, err, tables, expected, actual, psi_rev,
                   extras>>

\* the same call with the two populations swapped
PsiSwapped ==
    /\ pc = "psi_swap"
    /\ psi_rev' = compute_psi(actual, expected)
    /\ pc' = "psi_done"
    /\ UNCHANGED <<raw, df, clf, df_scored, err, tables, expected, actual, psi_val,
                   extras>>

NextPsi ==
    \/ PsiCall
    \/ PsiSwapped

SpecPsi == InitPsi /\ [][NextPsi]_vars

\* the two arrays hold the same values, each as often in one as in the other
SameValues(x, y) ==
    \A v \in Range(x) \cup Range(y) :
        Count(x, LAMBDA u : u = v) = Count(y, LAMBDA u : u = v)

\* C6: compute_psi is never negative, and is exactly 0 when actual consists
\* of the same values as expected.
C6_NonNegative ==
    /\ pc \in {"psi_swap", "psi_done"} =>
          /\ psi_val >= 0
          /\ SameValues(expected, actual) => psi_val = 0
    /\ pc = "psi_done" => psi_rev >= 0

\* a zero PSI of two equal populations that fill more than one bin
C6_Seen ==
    /\ pc = "psi_done"
    /\ expected = actual
    /\ Cardinality(Range(actual)) > 1
    /\ psi_val = 0

\* a population and its shift by one in one direction
ShiftA == Rep(5, 1) \o Rep(5, 2)
ShiftB == Shifted(ShiftA, 1)

\* C7: PSI is not symmetric: for A = five 1s and five 2s as expected and its
\* shift B = five 2s and five 3s as actual, compute_psi(A, B) differs from
\* compute_psi(B, A).
C7_Asymmetric ==
    (pc = "psi_done" /\ expected = ShiftA /\ actual = ShiftB) => psi_val # psi_rev

C7_Seen ==
    /\ pc = "psi_done"
    /\ expected = ShiftA
    /\ actual = ShiftB
    /\ psi_val = 4605221
    /\ psi_rev = 8517394

(***************************************************************************)
(* The loop of compute_psi_by_cohort for one feature: one Baseline, and a  *)
(* compute_psi call for each cohort in turn.  The arrays may hold nulls    *)
(* (compute_psi filters them itself); a cohort may hold a value below the  *)
(* least and a value above the greatest value a Baseline can hold.         *)
(***************************************************************************)
BinBaselineSizes == {1, 2, 3}

\* a null, a value below the range, a value above the range: how many of each
Strays == [nulls : {0, 1}, below : {0, 1}, above : {0, 2}]

WithStrays(x, st) ==
    Rep(st.below, 0) \o x \o Rep(st.above, MaxVal + 1) \o Rep(st.nulls, NaN)

\* the cohorts of one run: all on the least value, half on the least and half
\* on the greatest, all on the greatest
CohortArrays(st) ==
    << WithStrays(Rep(MIN_PSI_OBS, 1), st),
       WithStrays(Rep(MIN_PSI_OBS \div 2, 1) \o Rep(MIN_PSI_OBS \div 2, MaxVal), st),
       WithStrays(Rep(MIN_PSI_OBS, MaxVal), st) >>

InitBins ==
    /\ pc = "bin_loop"
    /\ \E n \in BinBaselineSizes : \E x \in Populations(n) : \E k \in {0, 1} :
          expected = x \o Rep(k, NaN)
    /\ \E st \in Strays : cohorts = CohortArrays(st)
    /\ actual = <<>>
    /\ psi_val = NaN
    /\ psi_rev = NaN
    /\ edges = <<>>
    /\ e_counts = <<>>
    /\ a_counts = <<>>
    /\ rng = 0
    /\ dist_rerun = <<>>
    /\ finished = {}
    /\ NoDash
    /\ raw = <<>>
    /\ df = <<>>
    /\ clf = "none"
    /\ df_scored = <<>>
    /\ err = "none"
    /\ NoTables

\* psi_val = compute_psi(baseline, actual) for the next cohort of the loop
CohortPsi ==
    /\ pc \in {"bin_loop", "binned"}
    /\ cohorts # <<>>
    /\ actual' = Head(cohorts)
    /\ cohorts' = Tail(cohorts)
    /\ edges' = BinEdges(expected, PSI_N_BINS)
    /\ e_counts' = Histogram(NotNan(expected), edges')
    /\ a_counts' = Histogram(NotNan(actual'), edges')
    /\ psi_val' = compute_psi(expected, actual')
    /\ expected' = expected
    /\ pc' = "binned"
    /\ UNCHANGED <<raw, df, clf, df_scored, err, tables, psi_rev, rng, dist_rerun,
                   finished, dashvars>>

NextBins == CohortPsi

SpecBins == InitBins /\ [][NextBins]_vars

StrictlyIncreasing(e) == \A i, j \in DOMAIN e : i < j => e[i] < e[j]

LeastOf(x) == CHOOSE v \in Range(x) : \A u \in Range(x) : v <= u

GreatestOf(x) == CHOOSE v \in Range(x) : \A u \in Range(x) : v >= u

\* the edge sequence of a call: from -inf to +inf, strictly increasing, the
\* inner edges within the range of the Baseline values
WellFormedEdges ==
    /\ Len(edges) >= 2
    /\ edges[1] = NEG_INF
    /\ edges[Len(edges)] = POS_INF
    /\ StrictlyIncreasing(edges)
    /\ \A i \in 2..(Len(edges) - 1) :
          /\ 10 * LeastOf(NotNan(expected)) <= edges[i]
          /\ edges[i] <= 10 * GreatestOf(NotNan(expected))

\* C14: the bin edges of compute_psi depend on the Baseline only: every
\* cohort compared against the Baseline is binned with the same strictly
\* increasing edge sequence from -inf to +inf, and no call changes the
\* Baseline values, so the edges are the same before and after every call.
C14_EdgesFromBaseline ==
    /\ [](pc = "binned" => WellFormedEdges)
    /\ [][ /\ expected' = expected
           /\ pc = "binned" => edges' = edges ]_vars

\* the last cohort of a run has been binned, on edges with collapsed
\* duplicates, after cohorts of other values
C14_Seen ==
    /\ pc = "binned"
    /\ cohorts = <<>>
    /\ Len(edges) > 2
    /\ Len(edges) < PSI_N_BINS + 1

\* the values of x that lie in the interval from edges[i] up to, but not
\* including, edges[i + 1]
InBin(x, i) ==
    Count(NotNan(x), LAMBDA v : edges[i] <= 10 * v /\ 10 * v < edges[i + 1])

\* C15: in compute_psi every non-null value of either population, also one
\* outside the Baseline's range, is counted in exactly one bin: each bin
\* counts the values between its edges, the counts of a population sum to
\* its number of non-null values, and nulls are counted nowhere; also when
\* duplicate quantile edges are collapsed.
C15_OneBinEach ==
    pc = "binned" =>
        /\ \A i \in DOMAIN e_counts : e_counts[i] = InBin(expected, i)
        /\ \A i \in DOMAIN a_counts : a_counts[i] = InBin(actual, i)
        /\ SumSeq(e_counts) = Count(expected, LAMBDA v : v # NaN)
        /\ SumSeq(a_counts) = Count(actual, LAMBDA v : v # NaN)

\* a Baseline of equal values with a null, against a cohort with a null and
\* values below and above the Baseline's range
C15_Seen ==
    /\ pc = "binned"
    /\ Len(edges) = 3
    /\ \E i \in DOMAIN expected : expected[i] = NaN
    /\ \E i \in DOMAIN actual : actual[i] = NaN
    /\ \E i \in DOMAIN actual : actual[i] # NaN /\ 10 * actual[i] < edges[2]
    /\ \E i \in DOMAIN actual : 10 * actual[i] > edges[2]
    /\ a_counts[1] > 0
    /\ a_counts[2] > 0

(***************************************************************************)
(* The metric computations of main() as independent tasks.  Loading,       *)
(* training and scoring run as in main(); from then on (pc = "auc") the    *)
(* five computations of lines 224-230 run in any order, each on the frame  *)
(* main() passes to it, and the run is done when all five have returned.   *)
(* A task that raises ends the run.                                        *)
(***************************************************************************)
Tasks == {"auc", "auc_grade", "psi", "missing", "dist"}

TaskShapes == {"absent", "c25", "c30"}

InitTasks ==
    /\ pc = "load"
    /\ \E pick \in [1..MaxMonths -> TaskShapes] : raw = RawData(pick)
    /\ df = <<>>
    /\ clf = "none"
    /\ df_scored = <<>>
    /\ err = "none"
    /\ NoTables
    /\ NoPsiCall
    /\ NoExtras

\* what every task leaves alone: the frames it reads and the other state
TaskFrame ==
    UNCHANGED <<raw, df, clf, df_scored, psivars, rng, dist_rerun, binvars,
               dashvars>>

\* compute_auc_by_cohort(df_scored)
TaskAuc ==
    /\ pc = "auc"
    /\ "auc" \notin finished
    /\ IF AucRaises(df_scored)
       THEN /\ pc' = "error"
            /\ err' = "KeyError"
            /\ UNCHANGED <<auc_df, finished>>
       ELSE /\ auc_df' = compute_auc_by_cohort(df_scored)
            /\ finished' = finished \cup {"auc"}
            /\ UNCHANGED <<pc, err>>
    /\ UNCHANGED <<auc_grade_df, psi_df, missing_df, dist_df>>
    /\ TaskFrame

\* compute_auc_by_cohort_grade(df_scored)
TaskAucGrade ==
    /\ pc = "auc"
    /\ "auc_grade" \notin finished
    /\ auc_grade_df' = compute_auc_by_cohort_grade(df_scored)
    /\ finished' = finished \cup {"auc_grade"}
    /\ UNCHANGED <<pc, err, auc_df, psi_df, missing_df, dist_df>>
    /\ TaskFrame

\* compute_psi_by_cohort(df_scored)
TaskPsi ==
    /\ pc = "auc"
    /\ "psi" \notin finished
    /\ IF PsiRaises(df_scored)
       THEN /\ pc' = "error"
            /\ err' = "IndexError"
            /\ UNCHANGED <<psi_df, finished>>
       ELSE /\ psi_df' = compute_psi_by_cohort(df_scored)
            /\ finished' = finished \cup {"psi"}
            /\ UNCHANGED <<pc, err>>
    /\ UNCHANGED <<auc_df, auc_grade_df, missing_df, dist_df>>
    /\ TaskFrame

\* compute_missing_rates(df)
TaskMissing ==
    /\ pc = "auc"
    /\ "missing" \notin finished
    /\ missing_df' = compute_missing_rates(df)
    /\ finished' = finished \cup {"missing"}
    /\ UNCHANGED <<pc, err, auc_df, auc_grade_df, psi_df, dist_df>>
    /\ TaskFrame

\* the period_label column written into df itself instead of into a copy
TaskDist_InPlace ==
    /\ pc = "auc"
    /\ "dist" \notin finished
    /\ dist_df' = compute_feature_distributions(df)
    /\ df' = [i \in DOMAIN df |-> df[i] @@ [period_label |-> PeriodLabel(df[i])]]
    /\ finished' = finished \cup {"dist"}
    /\ UNCHANGED <<pc, err, auc_df, auc_grade_df, psi_df, missing_df>>
    /\ UNCHANGED <<raw, clf, df_scored, psivars, rng, dist_rerun, binvars,
                   dashvars>>

\* compute_feature_distributions(df): works on df[...].copy()
TaskDist ==
    /\ pc = "auc"
    /\ "dist" \notin finished
    /\ dist_df' = compute_feature_distributions(df)
    /\ finished' = finished \cup {"dist"}
    /\ UNCHANGED <<pc, err, auc_df, auc_grade_df, psi_df, missing_df>>
    /\ TaskFrame

\* all five tables are there: main() goes on to save them
Join ==
    /\ pc = "auc"
    /\ finished = Tasks
    /\ pc' = "done"
    /\ UNCHANGED <<err, tables, finished>>
    /\ TaskFrame

NextTasks ==
    \/ Load
    \/ Train
    \/ Score
    \/ TaskAuc
    \/ TaskAucGrade
    \/ TaskPsi
    \/ TaskMissing
    \/ TaskDist
    \/ Join

SpecTasks == InitTasks /\ [][NextTasks]_vars

\* the tables main() computes from the csv in its sequential order
SequentialTables ==
    << compute_auc_by_cohort(ScoredRun(raw)),
       compute_auc_by_cohort_grade(ScoredRun(raw)),
       compute_psi_by_cohort(ScoredRun(raw)),
       compute_missing_rates(load_and_clean(raw)),
       compute_feature_distributions(load_and_clean(raw)) >>

\* C16: scoring is complete before any metric computation starts; no metric
\* computation changes the scored records, the unscored records or the
\* Baseline; and whatever the order of the five computations, a finished run
\* holds the five tables of the sequential order of main().
C16_AnyOrder ==
    /\ []((pc = "auc" \/ finished # {}) =>
             /\ df = load_and_clean(raw)
             /\ df_scored = ScoredRun(raw))
    /\ [](pc = "done" => tables = SequentialTables)
    /\ [][ pc = "auc" =>
             /\ df' = df
             /\ df_scored' = df_scored
             /\ \A f \in DOMAIN DRIFT_FEATURES :
                   Baseline(df_scored', DRIFT_FEATURES[f])
                       = Baseline(df_scored, DRIFT_FEATURES[f]) ]_vars

\* the last three computations of main() have returned before the first two
C16_Seen ==
    /\ pc = "auc"
    /\ finished = {"psi", "missing", "dist"}
    /\ psi_df # <<>>
    /\ missing_df # <<>>
    /\ dist_df # <<>>
    /\ auc_df = <<>>

(***************************************************************************)
(* compute_feature_distributions on its own, on data sets whose strata lie *)
(* below, at and above the cap: the training rows are issued in December   *)
(* 2014, the monitoring rows in January 2015.                              *)
(***************************************************************************)
TrainingSizes == {30, 3000, SAMPLE_CAP - 1, SAMPLE_CAP, SAMPLE_CAP + 1, 8000}

MonitoringSizes == {0, 1, 30, 3000, SAMPLE_CAP - 1, SAMPLE_CAP, SAMPLE_CAP + 1, 6000, 8000}

\* row i of a stratum: every fourth loan is charged off
StratumRow(ym, i) ==
    CleanRow(RawRow(ym, <<1, "A", IF i % 4 = 0 THEN "Charged Off" ELSE "Fully Paid",
                          (i % 3) + 1, (i % 2) + 1>>))

LargeData(nTrain, nMon) ==
    [i \in 1..nTrain |-> StratumRow(FirstMonth, i)]
    \o [i \in 1..nMon |-> StratumRow(FirstMonth + 1, i)]

InitSample ==
    /\ pc = "dist"
    /\ \E nTrain \in TrainingSizes : \E nMon \in MonitoringSizes :
          df = LargeData(nTrain, nMon)
    /\ raw = <<>>
    /\ clf = "none"
    /\ df_scored = <<>>
    /\ err = "none"
    /\ NoTables
    /\ NoPsiCall
    /\ NoExtras

NextSample == FeatureDistributions

SpecSample == InitSample /\ [][NextSample]_vars

\* the records of df that belong to a stratum, as positions
Stratum(d, label) == {i \in DOMAIN d : PeriodLabel(d[i]) = label}

SampleOf(label) == {k \in DOMAIN dist_df : dist_df[k].period_label = label}

\* C10: for each stratum of n records the sample holds exactly min(n, 5000)
\* rows with the stratum's label, all drawn from different records, each a
\* record of that stratum.
C10_SampleSize ==
    pc = "done" =>
        \A l \in DOMAIN PeriodLabels :
            LET members == Stratum(df, PeriodLabels[l])
                sampled == SampleOf(PeriodLabels[l])
                drawn   == {dist_df[k].row : k \in sampled}
            IN  /\ Cardinality(sampled) = Min2(Cardinality(members), SAMPLE_CAP)
                /\ Cardinality(drawn) = Cardinality(sampled)
                /\ drawn \subseteq members

\* a stratum of 3,000 returned whole beside a stratum of 8,000 cut to 5,000
C10_Seen ==
    /\ pc = "done"
    /\ Cardinality(Stratum(df, TRAINING)) = 3000
    /\ Cardinality(SampleOf(TRAINING)) = 3000
    /\ Cardinality(Stratum(df, MONITORING)) = 8000
    /\ Cardinality(SampleOf(MONITORING)) = 5000

(***************************************************************************)
(* The pipeline run on a csv that holds, beside its dated records, thirty  *)
(* records of both outcome classes and both grades whose issue_d is empty  *)
(* or is not a date; their year field is empty or a training year.         *)
(***************************************************************************)
DateShapes == {"absent", "c25", "c30"}

StrayStamps == {NaT, INVALID}

StrayYears == {NaN, 2014}

StrayRows(ts, year) ==
    LET rows == ShapeRows(FirstMonth, CohortShapes.c30)
    IN  [i \in DOMAIN rows |-> [rows[i] EXCEPT !.issue_d = ts, !.year = year]]

InitDates ==
    /\ pc = "load"
    /\ \E pick \in [1..MaxMonths -> DateShapes] :
       \E ts \in StrayStamps : \E year \in StrayYears :
          raw = RawData(pick) \o StrayRows(ts, year)
    /\ df = <<>>
    /\ clf = "none"
    /\ df_scored = <<>>
    /\ err = "none"
    /\ NoTables
    /\ NoPsiCall
    /\ NoExtras

SpecDates == InitDates /\ [][Next]_vars

\* the records of a table whose timestamp is a date
Dated(d) == SelectSeq(d, LAMBDA r : r.issue_d \notin {NaT, INVALID})

Undated(d) == SelectSeq(d, LAMBDA r : r.issue_d \in {NaT, INVALID})

\* the dated records of the month, or of the quarter, that starts at period
DatedIn(d, gran, period) ==
    SelectSeq(Dated(d), LAMBDA r :
        IF gran = "month" THEN r.issue_d = period
        ELSE r.issue_d - (r.issue_d % 3) = period)

\* every row of the four cohort tables is the row of a calendar period and
\* counts the dated records of that period only
CountsDatedOnly ==
    /\ AucDone =>
          \A i \in DOMAIN auc_df :
              /\ auc_df[i].period # NaT
              /\ auc_df[i].n_loans
                    = Len(DatedIn(df, auc_df[i].granularity, auc_df[i].period))
    /\ SegmentDone =>
          \A i \in DOMAIN auc_grade_df :
              /\ auc_grade_df[i].period # NaT
              /\ auc_grade_df[i].n_loans
                    = Count(DatedIn(df, "month", auc_grade_df[i].period),
                            LAMBDA r : r.grade = auc_grade_df[i].grade)
    /\ PsiDone =>
          \A i \in DOMAIN psi_df :
              /\ psi_df[i].period # NaT
              /\ psi_df[i].n_obs
                    = Count(DatedIn(df, "month", psi_df[i].period),
                            LAMBDA r : r[psi_df[i].feature] # NaN)
    /\ MissingDone =>
          \A i \in DOMAIN missing_df :
              /\ missing_df[i].period # NaT
              /\ missing_df[i].n_records
                    = Len(DatedIn(df, "month", missing_df[i].period))

\* the four cohort tables are those of the run over the dated records alone
\* (records without a timestamp and without a year)
SameAsWithout ==
    (\A i \in DOMAIN df : df[i].issue_d = NaT => df[i].year = NaN) =>
        /\ AucDone => auc_df = compute_auc_by_cohort(ScoredRun(Dated(raw)))
        /\ SegmentDone =>
              auc_grade_df = compute_auc_by_cohort_grade(ScoredRun(Dated(raw)))
        /\ PsiDone => psi_df = compute_psi_by_cohort(ScoredRun(Dated(raw)))
        /\ MissingDone =>
              missing_df = compute_missing_rates(load_and_clean(Dated(raw)))

\* C12 (as claimed): a record whose timestamp is missing or invalid is left
\* out of every cohort, so no row of the AUC, segment, PSI or missing-rate
\* table counts it, and the run goes on with the remaining records: the
\* record raises no error and the tables are those of the remaining records.
C12_BadTimestampExcluded ==
    /\ CountsDatedOnly
    /\ SameAsWithout
    /\ Undated(raw) # <<>> => err # "AttributeError"

\* C12, the part the code meets: a record whose timestamp is missing is
\* left out of every cohort and is counted by no row of the four tables.
C12_MissingExcluded ==
    /\ CountsDatedOnly
    /\ SameAsWithout
    /\ (\A i \in DOMAIN raw : raw[i].issue_d # INVALID) => err # "AttributeError"

\* a finished run over records without a timestamp, beside a cohort that
\* has rows in the four tables
C12_Seen ==
    /\ pc = "done"
    /\ Undated(df) # <<>>
    /\ auc_df # <<>>
    /\ auc_grade_df # <<>>
    /\ psi_df # <<>>
    /\ missing_df # <<>>

(***************************************************************************)
(* Two runs of compute_feature_distributions on the same records: the      *)
(* second run is a new process, whose process-wide generator starts in any *)
(* state.                                                                  *)
(***************************************************************************)
RerunTrainingSizes == {30, 3000, SAMPLE_CAP + 1, 8000}

RerunMonitoringSizes == {0, 3000, SAMPLE_CAP, 8000}

InitRerun ==
    /\ pc = "dist"
    /\ \E nTrain \in RerunTrainingSizes : \E nMon \in RerunMonitoringSizes :
          df = LargeData(nTrain, nMon)
    /\ rng \in RngStates
    /\ dist_rerun = <<>>
    /\ NoBins
    /\ finished = {}
    /\ NoDash
    /\ raw = <<>>
    /\ clf = "none"
    /\ df_scored = <<>>
    /\ err = "none"
    /\ NoTables
    /\ NoPsiCall

\* the process is started again on the same records
StartAgain ==
    /\ pc = "done"
    /\ rng' \in RngStates
    /\ pc' = "dist_again"
    /\ UNCHANGED <<raw, df, clf, df_scored, err, tables, psivars, dist_rerun, binvars,
                   finished, dashvars>>

\* compute_feature_distributions(df) of the second run
DistributionsAgain ==
    /\ pc = "dist_again"
    /\ dist_rerun' = compute_feature_distributions(df)
    /\ pc' = "done_again"
    /\ UNCHANGED <<raw, df, clf, df_scored, err, tables, psivars, rng, binvars,
                   finished, dashvars>>

NextRerun ==
    \/ FeatureDistributions
    \/ StartAgain
    \/ DistributionsAgain

SpecRerun == InitRerun /\ [][NextRerun]_vars

\* the records drawn for a stratum, as positions in df
DrawnOf(table, label) ==
    {table[k].row : k \in {j \in DOMAIN table : table[j].period_label = label}}

\* C11: two runs of compute_feature_distributions on the same records, with
\* the fixed seed, return the same set of sampled records for each stratum.
C11_SameSample ==
    pc = "done_again" =>
        \A l \in DOMAIN PeriodLabels :
            DrawnOf(dist_rerun, PeriodLabels[l]) = DrawnOf(dist_df, PeriodLabels[l])

\* both runs have sampled a stratum of 8,000 down to 5,000
C11_Seen ==
    /\ pc = "done_again"
    /\ Cardinality(Stratum(df, MONITORING)) = 8000
    /\ Cardinality(DrawnOf(dist_df, MONITORING)) = SAMPLE_CAP
    /\ Cardinality(DrawnOf(dist_rerun, MONITORING)) = SAMPLE_CAP

(***************************************************************************)
(* The dashboard (src/app.py): the callback update_kpis over the tables    *)
(* the pipeline has saved.  auc_df, psi_df and missing_df are the frames   *)
(* app.py reads at import.  dq_score is kept as the exact fraction         *)
(* <<num, den>> in units of 1e-6.                                          *)
(***************************************************************************)
THRESHOLDS ==
    [ standard     |-> [ auc_warning |-> 6500, auc_alert |-> 6000,
                         psi_warning |-> 100000, psi_alert |-> 250000 ],
      conservative |-> [ auc_warning |-> 6800, auc_alert |-> 6500,
                         psi_warning |-> 80000, psi_alert |-> 200000 ] ]

\* dq_status: v >= 0.95, v >= 0.90
DQ_HEALTHY == 950000
DQ_WARNING == 900000

\* latest_auc = 0.5 when no monthly row lies in the range
DEFAULT_AUC == 5000

\* 1.0 in units of 1e-6
ONE == 1000000

\* monthly_auc = auc_df[auc_df["granularity"] == "month"].sort_values("period")
monthly_auc == MonthlyRows(auc_df)

\* get_date_range: the slider holds 0-based positions in monthly_auc
get_date_range(slider_value) ==
    << monthly_auc[slider_value[1] + 1].period,
       monthly_auc[slider_value[2] + 1].period >>

\* table[(table["period"] >= start) & (table["period"] <= end)]
InRange(table, start, end) ==
    SelectSeq(table, LAMBDA r : r.period >= start /\ r.period <= end)

\* the rows of the last group of groupby("period")
LastPeriodRows(table) ==
    LET last == CHOOSE q \in {table[i].period : i \in DOMAIN table} :
                    \A i \in DOMAIN table : table[i].period <= q
    IN  SelectSeq(table, LAMBDA r : r.period = last)

auc_status(t, v) ==
    IF v >= t.auc_warning THEN <<"Healthy", "success">>
    ELSE IF v >= t.auc_alert THEN <<"Warning", "warning">>
    ELSE <<"Alert", "danger">>

psi_status(t, v) ==
    IF v < t.psi_warning THEN <<"Stable", "success">>
    ELSE IF v < t.psi_alert THEN <<"Warning", "warning">>
    ELSE <<"Alert", "danger">>

dq_status(v) ==
    IF v[1] >= DQ_HEALTHY * v[2] THEN <<"Healthy", "success">>
    ELSE IF v[1] >= DQ_WARNING * v[2] THEN <<"Warning", "warning">>
    ELSE <<"Alert", "danger">>

\* "warning" tested before "danger"
OverallHealth_WarningFirst(colors) ==
    IF "warning" \in Range(colors) THEN <<"Review", "warning">>
    ELSE IF "danger" \in Range(colors) THEN <<"ALERT", "danger">>
    ELSE <<"Healthy", "success">>

\* lines 318-325: the overall health from the three card colours
OverallHealth(colors) ==
    IF "danger" \in Range(colors) THEN <<"ALERT", "danger">>
    ELSE IF "warning" \in Range(colors) THEN <<"Review", "warning">>
    ELSE <<"Healthy", "success">>

update_kpis(slider_value, key) ==
    LET start == get_date_range(slider_value)[1]
        end   == get_date_range(slider_value)[2]
        t     == THRESHOLDS[key]
        m     == InRange(monthly_auc, start, end)
        p     == InRange(psi_df, start, end)
        mdf   == InRange(missing_df, start, end)
        latest_auc == IF Len(m) > 0 THEN m[Len(m)].auc_rolling3 ELSE DEFAULT_AUC
        max_psi ==
            IF Len(p) > 0
            THEN LET g == LastPeriodRows(p)
                 IN  CHOOSE v \in {g[i].psi : i \in DOMAIN g} :
                        \A i \in DOMAIN g : g[i].psi <= v
            ELSE 0
        dq_score ==
            IF Len(mdf) > 0
            THEN LET g == LastPeriodRows(mdf)
                 IN  << ONE * Len(g) - SumSeq([i \in DOMAIN g |-> g[i].missing_rate]),
                        Len(g) >>
            ELSE <<ONE, 1>>
        auc == auc_status(t, latest_auc)
        psi == psi_status(t, max_psi)
        dq  == dq_status(dq_score)
        health == OverallHealth(<<auc[2], psi[2], dq[2]>>)
    IN  [ date_range |-> slider_value, threshold_key |-> key,
          latest_auc |-> latest_auc, max_psi |-> max_psi, dq_score |-> dq_score,
          auc_s |-> auc[1], auc_c |-> auc[2],
          psi_s |-> psi[1], psi_c |-> psi[2],
          dq_s |-> dq[1], dq_c |-> dq[2],
          health_s |-> health[1], health_c |-> health[2] ]

(***************************************************************************)
(* The saved tables hold two months.  January 2015 is fixed; February 2015 *)
(* has a rolling AUC, a largest PSI (or no PSI row) and a dti missing rate *)
(* on either side of every threshold of the two presets.                   *)
(***************************************************************************)
AucLevels == {5900, 6000, 6400, 6500, 6700, 6800, 7000}

NO_PSI == NaN

PsiLevels == {NO_PSI, 79999, 80000, 99999, 100000, 199999, 200000, 249999, 250000}

MissingLevels == {0, 200000, 300000, 400000, 500000}

KpiAucTable(auc) ==
    << [ period |-> FirstMonth + 1, granularity |-> "month", auc |-> 6600,
         n_loans |-> 40, default_rate |-> 2000, auc_rolling3 |-> 6600 ],
       [ period |-> FirstMonth + 2, granularity |-> "month", auc |-> auc,
         n_loans |-> 40, default_rate |-> 2000, auc_rolling3 |-> auc ],
       [ period |-> FirstMonth + 1, granularity |-> "quarter", auc |-> 5000,
         n_loans |-> 80, default_rate |-> 2000, auc_rolling3 |-> 6600 ] >>

KpiPsiTable(psi) ==
    << [ period |-> FirstMonth + 1, feature |-> "dti", psi |-> 90000, n_obs |-> 40 ],
       [ period |-> FirstMonth + 1, feature |-> "int_rate", psi |-> 50000, n_obs |-> 40 ] >>
    \o IF psi = NO_PSI THEN <<>>
       ELSE << [ period |-> FirstMonth + 2, feature |-> "dti", psi |-> psi,
                 n_obs |-> 40 ],
               [ period |-> FirstMonth + 2, feature |-> "int_rate", psi |-> 50000,
                 n_obs |-> 40 ] >>

KpiMissingTable(rate) ==
    [ c \in DOMAIN DQ_FEATURES |->
        [ period |-> FirstMonth + 1, feature |-> DQ_FEATURES[c],
          missing_rate |-> 0, n_records |-> 40 ] ]
    \o [ c \in DOMAIN DQ_FEATURES |->
        [ period |-> FirstMonth + 2, feature |-> DQ_FEATURES[c],
          missing_rate |-> IF DQ_FEATURES[c] = "dti" THEN rate ELSE 0,
          n_records |-> 40 ] ]

\* the values a RangeSlider over monthly_auc can take
SliderValues ==
    {<<lo, hi>> : lo \in 0..(Len(monthly_auc) - 1), hi \in 0..(Len(monthly_auc) - 1)}
        \ {v \in (0..(Len(monthly_auc) - 1)) \X (0..(Len(monthly_auc) - 1)) : v[1] > v[2]}

\* the page as laid out: slider over all months, preset "standard"
InitKpi ==
    /\ pc = "dash_load"
    /\ \E auc \in AucLevels : \E psi \in PsiLevels : \E rate \in MissingLevels :
          /\ auc_df = KpiAucTable(auc)
          /\ psi_df = KpiPsiTable(psi)
          /\ missing_df = KpiMissingTable(rate)
    /\ date_range = <<0, Len(monthly_auc) - 1>>
    /\ threshold_key = "standard"
    /\ kpi = <<>>
    /\ kpi_prev = <<>>
    /\ auc_grade_df = <<>>
    /\ dist_df = <<>>
    /\ raw = <<>>
    /\ df = <<>>
    /\ clf = "none"
    /\ df_scored = <<>>
    /\ err = "none"
    /\ NoPsiCall
    /\ rng = 0
    /\ dist_rerun = <<>>
    /\ NoBins
    /\ finished = {}

DashFrame ==
    UNCHANGED <<raw, df, clf, df_scored, err, tables, psivars, rng, dist_rerun,
                binvars, finished>>

\* the callback fires once when the page is loaded
PageLoad ==
    /\ pc = "dash_load"
    /\ kpi' = update_kpis(date_range, threshold_key)
    /\ pc' = "dash"
    /\ UNCHANGED <<date_range, threshold_key, kpi_prev>>
    /\ DashFrame

\* Input("date-range", "value") changes
SlideRange ==
    /\ pc = "dash"
    /\ \E v \in SliderValues \ {date_range} :
          /\ date_range' = v
          /\ kpi' = update_kpis(v, threshold_key)
    /\ kpi_prev' = kpi
    /\ UNCHANGED <<pc, threshold_key>>
    /\ DashFrame

\* Input("threshold-toggle", "value") changes
ToggleThreshold ==
    /\ pc = "dash"
    /\ \E key \in DOMAIN THRESHOLDS \ {threshold_key} :
          /\ threshold_key' = key
          /\ kpi' = update_kpis(date_range, key)
    /\ kpi_prev' = kpi
    /\ UNCHANGED <<pc, date_range>>
    /\ DashFrame

NextKpi ==
    \/ PageLoad
    \/ SlideRange
    \/ ToggleThreshold

SpecKpi == InitKpi /\ [][NextKpi]_vars

Severity(color) ==
    CASE color = "success" -> 0
      [] color = "warning" -> 1
      [] color = "danger"  -> 2

\* the latest call only changed the preset, from "standard" to k or back
ToggledTo(k) ==
    /\ kpi_prev # <<>>
    /\ kpi_prev.date_range = kpi.date_range
    /\ kpi.threshold_key = k
    /\ kpi_prev.threshold_key # k

\* C17: in update_kpis the overall health is the worst of the three card
\* statuses: danger (ALERT) exactly when one of them is danger, warning
\* (Review) exactly when none is danger and one is warning, success
\* (Healthy) exactly when all three are success; and for the same AUC and
\* PSI values the conservative preset gives an AUC status and a PSI status
\* at least as severe as the standard preset.
C17_WorstOfThree ==
    pc = "dash" =>
        LET colors == {kpi.auc_c, kpi.psi_c, kpi.dq_c}
        IN  /\ kpi.health_c = "danger" <=> "danger" \in colors
            /\ kpi.health_c = "warning"
                  <=> ("danger" \notin colors /\ "warning" \in colors)
            /\ kpi.health_c = "success" <=> colors = {"success"}
            /\ kpi.health_s =
                  (CASE kpi.health_c = "danger"  -> "ALERT"
                     [] kpi.health_c = "warning" -> "Review"
                     [] kpi.health_c = "success" -> "Healthy")
            /\ ToggledTo("conservative") =>
                  /\ kpi.latest_auc = kpi_prev.latest_auc
                  /\ kpi.max_psi = kpi_prev.max_psi
                  /\ Severity(kpi.auc_c) >= Severity(kpi_prev.auc_c)
                  /\ Severity(kpi.psi_c) >= Severity(kpi_prev.psi_c)
            /\ ToggledTo("standard") =>
                  /\ Severity(kpi.auc_c) <= Severity(kpi_prev.auc_c)
                  /\ Severity(kpi.psi_c) <= Severity(kpi_prev.psi_c)

\* the preset was switched to conservative: the AUC card went from success
\* to warning, the PSI card from warning to danger, and with a healthy
\* data-quality card the overall status is ALERT
C17_Seen ==
    /\ pc = "dash"
    /\ ToggledTo("conservative")
    /\ kpi_prev.auc_c = "success"
    /\ kpi.auc_c = "warning"
    /\ kpi_prev.psi_c = "warning"
    /\ kpi.psi_c = "danger"
    /\ kpi.dq_c = "success"
    /\ kpi_prev.health_c = "warning"
    /\ kpi.health_c = "danger"

====
